---- MODULE Spec2Model ----
(***************************************************************************)
(* The Brewin evaluator of interpreterv4.py as a state machine.            *)
(*                                                                         *)
(* The heap is three growing sequences: Value cells (type_valuev4.Value,   *)
(* identified by their index, since Python names and dicts hold references *)
(* to Value objects), Object records and Closure records.  The environment *)
(* is EnvironmentManager.environment, one list of scopes shared by every   *)
(* call.  Statements are drawn from small sets and executed one per step;  *)
(* the body a function runs is the statements executed while its frame is  *)
(* the top of `stack`.                                                     *)
(***************************************************************************)
EXTENDS Integers, Sequences, FiniteSets, TLC

VARIABLES
    cells,   \* Seq of [t, v]: every Value object ever created
    objs,    \* Seq of [values, proto]: every Object
    clos,    \* Seq of [captured, ast, type]: every Closure
    env,     \* EnvironmentManager.environment: Seq of scopes (name -> cell)
    stack,   \* open constructs above main's statement list (blocks, calls)
    status,  \* "run", "done", or the way the run was aborted
    steps,   \* number of steps taken (bounded by each specification)
    out,     \* the lines printed so far: Seq of [t, v]
    cmeta,   \* history: per Closure, what the defining environment held
    hist     \* history: what the last statements of interest did

vars == <<cells, objs, clos, env, stack, status, steps, out, cmeta, hist>>

(***************************************************************************)
(* Bounds of the explored programs.                                        *)
(***************************************************************************)
MaxStepsClosure == 5
MaxStepsParams == 5
MaxStepsProto == 5
MaxStepsMethod == 6
MaxStepsEq == 5
MaxStepsCtl == 5
MaxStepsArgs == 5
MaxStepsCalls == 4
MaxStepsOps == 2
MaxStepsTable == 5
MaxStepsReturn == 5

(***************************************************************************)
(* Names.  NameSeq fixes an order on the names so that the cells a         *)
(* statement allocates get their indices deterministically.                *)
(***************************************************************************)
NameSeq == <<"a", "b", "f", "o", "d", "p", "q", "r", "this", "foo", "bar", "main">>
AllNames == {NameSeq[i] : i \in 1..Len(NameSeq)}
Idx(n) == CHOOSE i \in 1..Len(NameSeq) : NameSeq[i] = n
AllFields == {"x", "m", "g"}

PrimTypes == {"INT", "BOOL", "STRING", "NIL"}
IsPrim(t) == t \in PrimTypes

EmptyMap == [n \in {} |-> 0]
Put(m, n, k) == [z \in DOMAIN m \cup {n} |-> IF z = n THEN k ELSE m[z]]
Range(f) == {f[z] : z \in DOMAIN f}
MaxOf(S) == CHOOSE z \in S : \A y \in S : y <= z

(***************************************************************************)
(* ASTs: the formal parameter lists of the program's function definitions  *)
(* and lambda expressions.  Asts[1..2] are the top-level functions.        *)
(***************************************************************************)
Formal(n, r) == [name |-> n, ref |-> r]
Asts ==
    << [name |-> "main", args |-> <<>>],
       [name |-> "foo", args |-> <<Formal("p", TRUE)>>],
       [name |-> "", args |-> <<>>],
       [name |-> "", args |-> <<Formal("p", FALSE)>>],
       [name |-> "", args |-> <<Formal("p", TRUE)>>] >>
NumFuncs == 2
LamNone == NumFuncs + 1
LamVal == NumFuncs + 2
LamRef == NumFuncs + 3

\* func_name_to_ast: name -> (number of parameters -> Closure), built at load
FuncTable ==
    [n \in {Asts[i].name : i \in 1..NumFuncs} |->
        [k \in {Len(Asts[i].args) : i \in {j \in 1..NumFuncs : Asts[j].name = n}} |->
            CHOOSE i \in 1..NumFuncs : Asts[i].name = n /\ Len(Asts[i].args) = k]]

\* Interpreter.NIL_VALUE: one Value object shared by every use of it
NilCell == 1
\* its content, create_value(InterpreterBase.NIL_DEF): NIL_DEF is the string
\* the parser's nil node is tagged with, and create_value tests
\* isinstance(val, str) before it tests val == NIL_DEF.  The string "nil" is
\* the one-letter String NilPayload.
NilPayload == 3
NilValue == [t |-> "STRING", v |-> NilPayload]

NoCopy == [x |-> 0, y |-> 0, alias |-> FALSE]
NoSet == [cell |-> 0, obj |-> 0, field |-> "", fcell |-> 0, at |-> 0]
NoEval == [op |-> "", lt |-> "NIL", lv |-> 0, rt |-> "NIL", rv |-> 0,
           res |-> [t |-> "NIL", v |-> 0], err |-> "", at |-> 0]
NoExit == [kind |-> "", popped |-> 0, loops |-> 0, before |-> 0, after |-> 0, at |-> 0]
NoRet == [src |-> 0, val |-> 0, at |-> 0]
NoAssign == [name |-> "", field |-> "", src |-> 0, srct |-> "", at |-> 0]
NoCall == [kind |-> "", name |-> "", mname |-> "", nargs |-> 0, at |-> 0]
NoYield == [val |-> 0, at |-> 0]
NoRead == [name |-> "", field |-> "", at |-> 0]
InitHist == [copied |-> NoCopy, lastSet |-> NoSet, lastEval |-> NoEval,
             lastExit |-> NoExit, lastRet |-> NoRet, lastAssign |-> NoAssign,
             lastCall |-> NoCall, lastYield |-> NoYield, lastRead |-> NoRead,
             bodyWrites |-> {}]

(***************************************************************************)
(* The interpreter's data as one record, so that the evaluator's methods   *)
(* are operators from machine to machine.                                  *)
(***************************************************************************)
Machine == [cells |-> cells, objs |-> objs, clos |-> clos, env |-> env,
            out |-> out, cmeta |-> cmeta, hist |-> hist, now |-> steps + 1]

Ok(m, c) == [m |-> m, c |-> c, err |-> ""]
Fail(m, e) == [m |-> m, c |-> 0, err |-> e]

\* Value(t, v): a new Value object
NewValue(m, t, v) ==
    Ok([m EXCEPT !.cells = Append(@, [t |-> t, v |-> v])], Len(m.cells) + 1)

\* copy.copy(value): a new Value object with the same type and payload
ShallowCopy(m, c) == NewValue(m, m.cells[c].t, m.cells[c].v)

\* EnvironmentManager.get
Get(e, n) ==
    LET S == {i \in 1..Len(e) : n \in DOMAIN e[i]}
    IN  IF S = {} THEN 0 ELSE e[MaxOf(S)][n]

\* a set that binds an unknown name in the outermost scope
SetGlobal(e, n, k) ==
    LET S == {i \in 1..Len(e) : n \in DOMAIN e[i]}
    IN  IF S = {} THEN [e EXCEPT ![1] = Put(@, n, k)]
        ELSE [e EXCEPT ![MaxOf(S)] = Put(@, n, k)]

\* EnvironmentManager.set (force_new_var_creation = False)
EnvSet(e, n, k) ==
    LET S == {i \in 1..Len(e) : n \in DOMAIN e[i]}
    IN  IF S = {} THEN [e EXCEPT ![Len(e)] = Put(@, n, k)]
        ELSE [e EXCEPT ![MaxOf(S)] = Put(@, n, k)]

\* EnvironmentManager.__iter__: the visible names, nearest binding of each
Visible(e) == UNION {DOMAIN e[i] : i \in 1..Len(e)}

(***************************************************************************)
(* copy.deepcopy(value): every Value, Object and Closure reachable from    *)
(* the Value is duplicated once; the copies refer to each other the way    *)
(* the originals do.                                                       *)
(***************************************************************************)
ReachStep(m, R) ==
    LET ro == R.o \cup {m.cells[c].v : c \in {z \in R.c : m.cells[z].t = "OBJECT"}}
        rk == R.k \cup {m.cells[c].v : c \in {z \in R.c : m.cells[z].t = "CLOSURE"}}
        rc == R.c \cup UNION {Range(m.objs[o].values) : o \in R.o}
                  \cup {m.objs[o].proto : o \in {z \in R.o : m.objs[z].proto # 0}}
                  \cup UNION {Range(m.clos[k].captured) : k \in R.k}
    IN  [c |-> rc, o |-> ro, k |-> rk]

RECURSIVE Reach(_, _)
RECURSIVE ReachNext(_, _, _)
ReachNext(m, R, N) == IF N = R THEN R ELSE Reach(m, N)
Reach(m, R) == ReachNext(m, R, ReachStep(m, R))

Rank(S, z) == Cardinality({y \in S : y < z}) + 1
Nth(S, i) == CHOOSE z \in S : Rank(S, z) = i

CopyGraph(m, c, R) ==
    LET nc == Len(m.cells)
        no == Len(m.objs)
        nk == Len(m.clos)
        mc(z) == nc + Rank(R.c, z)
        mo(z) == no + Rank(R.o, z)
        mk(z) == nk + Rank(R.k, z)
        cellCopy(z) ==
            [t |-> m.cells[z].t,
             v |-> IF m.cells[z].t = "OBJECT" THEN mo(m.cells[z].v)
                   ELSE IF m.cells[z].t = "CLOSURE" THEN mk(m.cells[z].v)
                   ELSE m.cells[z].v]
        objCopy(z) ==
            [values |-> [f \in DOMAIN m.objs[z].values |-> mc(m.objs[z].values[f])],
             proto |-> IF m.objs[z].proto = 0 THEN 0 ELSE mc(m.objs[z].proto)]
        cloCopy(z) ==
            [captured |-> [n \in DOMAIN m.clos[z].captured |-> mc(m.clos[z].captured[n])],
             ast |-> m.clos[z].ast,
             type |-> m.clos[z].type]
        metaCopy(z) ==
            [origin |-> [n \in DOMAIN m.clos[z].captured |-> 0],
             snap |-> [n \in DOMAIN m.clos[z].captured |->
                          cellCopy(m.clos[z].captured[n])],
             at |-> m.now]
        newCells == [i \in 1..Cardinality(R.c) |-> cellCopy(Nth(R.c, i))]
        newObjs == [i \in 1..Cardinality(R.o) |-> objCopy(Nth(R.o, i))]
        newClos == [i \in 1..Cardinality(R.k) |-> cloCopy(Nth(R.k, i))]
        newMeta == [i \in 1..Cardinality(R.k) |-> metaCopy(Nth(R.k, i))]
    IN  Ok([m EXCEPT !.cells = @ \o newCells,
                     !.objs = @ \o newObjs,
                     !.clos = @ \o newClos,
                     !.cmeta = @ \o newMeta],
           mc(c))

\* a copy of the Value only: its Object or Closure is shared
CopyOfValue(m, c) == NewValue(m, m.cells[c].t, m.cells[c].v)

DeepCopy(m, c) == CopyGraph(m, c, Reach(m, [c |-> {c}, o |-> {}, k |-> {}]))

(***************************************************************************)
(* Closure.__init__(func_ast, env): Int/Bool/String/Nil values are         *)
(* captured as copies, Objects and Closures as the same Value object.      *)
(***************************************************************************)
\* two other capture policies: every Value shared, every Value copied
CapturesNothingByCopy(t) == FALSE
CapturesAllByCopy(t) == TRUE

CapturesByCopy(t) == t \in {"INT", "BOOL", "STRING", "NIL"}

\* the loop of Closure.__init__ over the visible names (todo: their indices)
RECURSIVE CaptureAll(_, _, _)
Captured(d, todo, cap, n) == CaptureAll(d.m, todo, Put(cap, n, d.c))
CaptureOne(m, todo, cap, n, k) ==
    IF CapturesByCopy(m.cells[k].t) THEN Captured(DeepCopy(m, k), todo, cap, n)
    ELSE CaptureAll(m, todo, Put(cap, n, k))
CaptureNext(m, todo, cap, i) ==
    CaptureOne(m, todo \ {i}, cap, NameSeq[i], Get(m.env, NameSeq[i]))
CaptureAll(m, todo, cap) ==
    IF todo = {} THEN [m |-> m, cap |-> cap]
    ELSE CaptureNext(m, todo, cap, CHOOSE z \in todo : \A y \in todo : z <= y)

\* the new Closure object; r is the machine and the captured_env of the loop
MakeClosure(m, ast, vis, r) ==
    Ok([r.m EXCEPT !.clos = Append(@, [captured |-> r.cap, ast |-> ast,
                                       type |-> "CLOSURE"]),
                   !.cmeta = Append(@, [origin |-> [n \in vis |-> Get(m.env, n)],
                                        snap |-> [n \in vis |-> m.cells[Get(m.env, n)]],
                                        at |-> m.now])],
       Len(r.m.clos) + 1)

NewClosure(m, ast) ==
    MakeClosure(m, ast, Visible(m.env),
                CaptureAll(m, {Idx(n) : n \in Visible(m.env)}, EmptyMap))

\* another resolution: every name is the first function of the table
FirstFunction(m, name, num) == Ok(m, 1)

(***************************************************************************)
(* Interpreter.__get_func_by_name(name, num_params); num_params = -1 is    *)
(* Python's None.  The result's c is a Closure index, 0 for None.          *)
(***************************************************************************)
GetFuncByName(m, name, num) ==
    IF name \notin DOMAIN FuncTable
    THEN LET k == Get(m.env, name)
         IN  IF k = 0 THEN Ok(m, 0)
             ELSE IF m.cells[k].t # "CLOSURE" THEN Fail(m, "TYPE")
             ELSE IF Len(Asts[m.clos[m.cells[k].v].ast].args) # num THEN Fail(m, "TYPE")
             ELSE Ok(m, m.cells[k].v)
    ELSE LET cand == FuncTable[name]
         IN  IF num = -1
             THEN IF Cardinality(DOMAIN cand) > 1 THEN Fail(m, "NAME")
                  ELSE Ok(m, cand[CHOOSE z \in DOMAIN cand : TRUE])
             ELSE IF num \notin DOMAIN cand THEN Fail(m, "NAME")
             ELSE Ok(m, cand[num])

(***************************************************************************)
(* Interpreter.__get_property_or_method(obj, name).  A prototype chain     *)
(* longer than the number of Objects is a cycle, on which the recursion    *)
(* ends in Python's RecursionError.                                        *)
(***************************************************************************)
RECURSIVE PropertyLookup(_, _, _, _)
PropertyLookup(m, k, name, fuel) ==
    LET o == m.objs[m.cells[k].v]
    IN  IF name \in DOMAIN o.values THEN Ok(m, o.values[name])
        ELSE IF o.proto # 0 /\ m.cells[o.proto].t = "OBJECT"
        THEN IF fuel = 0 THEN Fail(m, "CRASH")
             ELSE PropertyLookup(m, o.proto, name, fuel - 1)
        ELSE Fail(m, "NAME")

\* another lookup: the object's own fields only
OwnField(m, k, name) == PropertyLookup(m, k, name, 0)

GetPropertyOrMethod(m, k, name) == PropertyLookup(m, k, name, Len(m.objs))

(***************************************************************************)
(* Interpreter.__eval_name                                                 *)
(***************************************************************************)
\* a name that is no variable: the function of that name as a new Value
FuncValue(m, f) ==
    IF f.err # "" THEN f
    ELSE IF f.c = 0 THEN Fail(m, "NAME")
    ELSE NewValue(m, "CLOSURE", f.c)

\* history of a read of  name.field
ReadNote(m, name, field) ==
    [m EXCEPT !.hist.lastRead = [name |-> name, field |-> field, at |-> m.now]]

EvalName(m, name, field) ==
    IF field # ""
    THEN LET obj == Get(m.env, name)
         IN  IF obj = 0 THEN Fail(m, "CRASH")     \* None.type(): AttributeError
             ELSE IF m.cells[obj].t = "OBJECT"
             THEN IF field = "proto"
                  THEN IF m.objs[m.cells[obj].v].proto = 0 THEN Fail(m, "NAME")
                       ELSE Ok(m, m.objs[m.cells[obj].v].proto)
                  ELSE GetPropertyOrMethod(m, obj, field)
             ELSE Fail(m, "TYPE")
    ELSE IF Get(m.env, name) # 0 THEN Ok(m, Get(m.env, name))
    ELSE FuncValue(m, GetFuncByName(m, name, -1))

(***************************************************************************)
(* Expressions without calls: [k, a, b, n].                                *)
(*   int/bool/str: literal with payload n;  nil;  var: name a;             *)
(*   dot: a.b;  lambda: the lambda expression with parameter list Asts[n]; *)
(*   obj: the object literal @.                                            *)
(***************************************************************************)
Ex(k, a, b, n) == [k |-> k, a |-> a, b |-> b, n |-> n]
IntLit(n) == Ex("int", "", "", n)
BoolLit(n) == Ex("bool", "", "", n)
StrLit(n) == Ex("str", "", "", n)
NilLit == Ex("nil", "", "", 0)
Var(a) == Ex("var", a, "", 0)
Dot(a, b) == Ex("dot", a, b, 0)
Lambda(n) == Ex("lambda", "", "", n)
ObjLit == Ex("obj", "", "", 0)

\* Value(Type.CLOSURE, Closure(expr_ast, self.env))
ClosureValue(c) == NewValue(c.m, "CLOSURE", c.c)

\* Interpreter.__eval_expr
EvalExpr(m, e) ==
    CASE e.k = "nil" -> Ok(m, NilCell)
      [] e.k = "int" -> NewValue(m, "INT", e.n)
      [] e.k = "str" -> NewValue(m, "STRING", e.n)
      [] e.k = "bool" -> NewValue(m, "BOOL", e.n)
      [] e.k = "var" -> EvalName(m, e.a, "")
      [] e.k = "dot" -> EvalName(ReadNote(m, e.a, e.b), e.a, e.b)
      [] e.k = "lambda" -> ClosureValue(NewClosure(m, e.n))
      [] e.k = "obj" ->
            NewValue([m EXCEPT !.objs = Append(@, [values |-> EmptyMap, proto |-> 0])],
                     "OBJECT", Len(m.objs) + 1)

(***************************************************************************)
(* Frames of `stack`: one per statement list that is running above main's, *)
(* a call together with the statement list of its body.                    *)
(*   kind  "call", "if" or "while"                                         *)
(*   clo   the Closure a call runs;  recv  the receiver Value of a method  *)
(*         call (0 for a function call)                                    *)
(*   retName, retField  the target of  target = call(...)  ("" for a call  *)
(*         statement)                                                      *)
(*   base  the number of scopes before the construct started               *)
(*   args  per formal: its name, whether it is by-reference, and, when the *)
(*         actual argument is a plain variable, that variable, the         *)
(*         caller's Value and what it held when the call started           *)
(*   cond  the condition of a while                                        *)
(***************************************************************************)
Frame(kind, clo, recv, rn, rf, base, args, cond) ==
    [kind |-> kind, clo |-> clo, recv |-> recv, retName |-> rn, retField |-> rf,
     base |-> base, args |-> args, cond |-> cond]

CallFrames(st) == {i \in 1..Len(st) : st[i].kind = "call"}
Active(st) == {st[i].clo : i \in CallFrames(st)}
\* a return that ends the innermost statement list only
TopFrame(st) == Len(st)

TopCall(st) == IF CallFrames(st) = {} THEN 0 ELSE MaxOf(CallFrames(st))
FrameWidth(fr) == IF fr.kind = "call" THEN 2 ELSE 1

(***************************************************************************)
(* Value.set(other), with the history of who wrote the Value.              *)
(***************************************************************************)
ValueSet(m, k, src, act) ==
    [m EXCEPT !.cells[k] = m.cells[src],
              !.hist.bodyWrites = @ \cup {<<c, k>> : c \in act},
              !.hist.lastSet = IF @.cell = k \/ @.fcell = k THEN NoSet ELSE @]

\* Object.set(field, symbol)
ObjectSet(m, target, field, src, now) ==
    [m EXCEPT !.objs[m.cells[target].v].values = Put(@, field, src),
              !.hist.lastSet = [cell |-> target, obj |-> m.cells[target].v,
                                field |-> field, fcell |-> src, at |-> now]]

\* an assignment to .proto without its checks
SetProtoUnchecked(m, o, src) == Ok([m EXCEPT !.objs[o].proto = src], 0)

\* the checks of an assignment to .proto
SetProto(m, o, src) ==
    IF m.cells[src].t \in {"NIL", "STRING"} THEN Fail(m, "NAME")
    ELSE IF m.cells[src].t # "OBJECT" THEN Fail(m, "TYPE")
    ELSE Ok([m EXCEPT !.objs[o].proto = src], 0)

(***************************************************************************)
(* Interpreter.__assign after its source expression has been evaluated     *)
(* and copied: src is the new Value, name[.field] the target.              *)
(***************************************************************************)
AssignTo(m, name, field, src, act, now) ==
    LET target == Get(m.env, name)
    IN  IF field # "" /\ target = 0 THEN Fail(m, "CRASH")   \* None.t: AttributeError
        ELSE IF field # "" /\ m.cells[target].t # "OBJECT" THEN Fail(m, "TYPE")
        ELSE IF target = 0 /\ field = "proto"
        THEN LET n == NewValue([m EXCEPT !.objs = Append(@, [values |-> EmptyMap,
                                                             proto |-> 0])],
                               "OBJECT", Len(m.objs) + 1)
             IN  SetProto([n.m EXCEPT !.env = EnvSet(@, name, n.c)],
                             Len(m.objs) + 1, src)
        ELSE IF target = 0
        THEN Ok([m EXCEPT !.env = EnvSet(@, name, src)], 0)
        ELSE IF m.cells[target].t = "OBJECT" /\ field # ""
        THEN IF field = "proto" THEN SetProto(m, m.cells[target].v, src)
             ELSE Ok(ObjectSet(m, target, field, src, now), 0)
        ELSE LET m1 == IF m.cells[target].t = "CLOSURE" /\ m.cells[src].t # "CLOSURE"
                       THEN [m EXCEPT !.clos[m.cells[target].v].type = m.cells[src].t]
                       ELSE m
             IN  Ok(ValueSet(m1, target, src, act), 0)

\* src_value_obj = copy.copy(self.__eval_expr(...))
\* the assignment without copy.copy: the source Value itself is bound
SourceItself(m, c) == Ok(m, c)

AssignSource(m, c) == ShallowCopy(m, c)

(***************************************************************************)
(* Interpreter.__prepare_env_with_closed_variables and __prepare_params.   *)
(***************************************************************************)
WithClosedVariables(m, clo, ne) ==
    [n \in DOMAIN ne \cup DOMAIN m.clos[clo].captured |->
        IF n \in DOMAIN m.clos[clo].captured THEN m.clos[clo].captured[n] ELSE ne[n]]

\* two other parameter policies: every formal by reference, every formal by value
AlwaysByRef(formal) == TRUE
AlwaysByValue(formal) == FALSE

\* formal_ast.elem_type == REFARG_DEF
PassByRef(formal) == formal.ref

RECURSIVE BindParams(_, _, _, _, _)
Bound(r, formals, actuals, i, ne) ==
    BindParams(r.m, formals, actuals, i + 1, Put(ne, formals[i].name, r.c))
BindOne(e, formals, actuals, i, ne) ==
    IF e.err # "" THEN [m |-> e.m, ne |-> ne, err |-> e.err]
    ELSE IF PassByRef(formals[i]) THEN Bound(e, formals, actuals, i, ne)
    ELSE Bound(DeepCopy(e.m, e.c), formals, actuals, i, ne)
BindParams(m, formals, actuals, i, ne) ==
    IF i > Len(formals) THEN [m |-> m, ne |-> ne, err |-> ""]
    ELSE BindOne(EvalExpr(m, actuals[i]), formals, actuals, i, ne)

\* another check of the argument count: a Type error
ParamsTypeError(m, clo, actuals, ne) ==
    IF Len(actuals) # Len(Asts[m.clos[clo].ast].args)
    THEN [m |-> m, ne |-> ne, err |-> "TYPE"]
    ELSE BindParams(m, Asts[m.clos[clo].ast].args, actuals, 1, ne)

PrepareParams(m, clo, actuals, ne) ==
    LET formals == Asts[m.clos[clo].ast].args
    IN  IF Len(actuals) # Len(formals) THEN [m |-> m, ne |-> ne, err |-> "NAME"]
        ELSE BindParams(m, formals, actuals, 1, ne)

\* history: what each formal was bound from
ArgInfo(m, clo, actuals) ==
    LET formals == Asts[m.clos[clo].ast].args
    IN  [i \in 1..Len(formals) |->
            [name |-> formals[i].name, ref |-> formals[i].ref,
             aname |-> IF actuals[i].k = "var" THEN actuals[i].a ELSE "",
             acell |-> IF actuals[i].k = "var" THEN Get(m.env, actuals[i].a) ELSE 0,
             asnap |-> IF actuals[i].k = "var" /\ Get(m.env, actuals[i].a) # 0
                       THEN m.cells[Get(m.env, actuals[i].a)] ELSE NilValue]]

(***************************************************************************)
(* Interpreter.__eval_op with __bin_op_promotion, __compatible_types and   *)
(* the tables of __setup_ops.  Payloads are integers: a Bool is 0 or 1, a  *)
(* String is a numeral in base StrBase whose digits 1.. are its letters.   *)
(***************************************************************************)
StrBase == 4
RECURSIVE StrLen(_)
StrLen(v) == IF v = 0 THEN 0 ELSE 1 + StrLen(v \div StrBase)
RECURSIVE Pow(_, _)
Pow(b, n) == IF n = 0 THEN 1 ELSE b * Pow(b, n - 1)
Concat(x, y) == x * Pow(StrBase, StrLen(y)) + y

IntOps == {"+", "-", "*", "/", "==", "!=", "<", "<=", ">", ">="}
StrOps == {"+", "==", "!="}
BoolOps == {"&&", "||", "==", "!="}
EqOps == {"==", "!="}
OpTable(t) ==
    CASE t = "INT" -> IntOps
      [] t = "STRING" -> StrOps
      [] t = "BOOL" -> BoolOps
      [] OTHER -> EqOps

B2N(b) == IF b THEN 1 ELSE 0
IntToBool(val) == [t |-> "BOOL", v |-> B2N(val.v # 0)]
BoolToInt(val) == [t |-> "INT", v |-> B2N(val.v # 0)]

BinOpPromotion(op, l, r) ==
    LET keep == op \in IntOps /\ l.t = "INT" /\ r.t = "INT"
        l1 == IF op \in BoolOps /\ ~keep /\ l.t = "INT" THEN IntToBool(l) ELSE l
        r1 == IF op \in BoolOps /\ ~keep /\ r.t = "INT" THEN IntToBool(r) ELSE r
        l2 == IF op \in IntOps /\ l1.t = "BOOL" THEN BoolToInt(l1) ELSE l1
        r2 == IF op \in IntOps /\ r1.t = "BOOL" THEN BoolToInt(r1) ELSE r1
    IN  <<l2, r2>>

CompatibleTypes(op, l, r) == op \in EqOps \/ l.t = r.t

\* Python's == on two payloads: an int equals a bool of the same number,
\* a Closure only itself, None only None
PyEq(l, r) ==
    LET cls(t) == IF t \in {"INT", "BOOL"} THEN "num" ELSE t
    IN  cls(l.t) = cls(r.t) /\ l.v = r.v

\* another comparison: two operands of one kind are the same
SameKind(l, r) == l.t = r.t

\* left_value_obj.value() is right_value_obj.value(), one of them an Object
SameObject(l, r) == l.t = "OBJECT" /\ r.t = "OBJECT" /\ l.v = r.v

ApplyOp(op, l, r) ==
    CASE op = "==" -> [t |-> "BOOL", v |-> B2N(PyEq(l, r))]
      [] op = "!=" -> [t |-> "BOOL", v |-> B2N(~PyEq(l, r))]
      [] op = "+" -> [t |-> l.t, v |-> IF l.t = "STRING" THEN Concat(l.v, r.v)
                                       ELSE l.v + r.v]
      [] op = "-" -> [t |-> l.t, v |-> l.v - r.v]
      [] op = "*" -> [t |-> l.t, v |-> l.v * r.v]
      [] op = "/" -> [t |-> l.t, v |-> l.v \div r.v]
      [] op = "<" -> [t |-> "BOOL", v |-> B2N(l.v < r.v)]
      [] op = "<=" -> [t |-> "BOOL", v |-> B2N(l.v <= r.v)]
      [] op = ">" -> [t |-> "BOOL", v |-> B2N(l.v > r.v)]
      [] op = ">=" -> [t |-> "BOOL", v |-> B2N(l.v >= r.v)]
      [] op = "&&" -> [t |-> l.t, v |-> B2N(l.v # 0 /\ r.v # 0)]
      [] op = "||" -> [t |-> l.t, v |-> B2N(l.v # 0 \/ r.v # 0)]

\* the result Value of  l op r  on two evaluated operands, or the error
OpResult(op, l, r) ==
    IF l.t = "OBJECT" \/ r.t = "OBJECT"
    THEN IF op \notin {"==", "!="} THEN [err |-> "TYPE", val |-> l]
         ELSE [err |-> "",
               val |-> [t |-> "BOOL",
                        v |-> B2N(IF op = "==" THEN SameObject(l, r)
                                  ELSE ~SameObject(l, r))]]
    ELSE LET pr == BinOpPromotion(op, l, r)
         IN  IF ~CompatibleTypes(op, pr[1], pr[2]) THEN [err |-> "TYPE", val |-> l]
             ELSE IF op \notin OpTable(pr[1].t) THEN [err |-> "TYPE", val |-> l]
             ELSE IF op = "/" /\ pr[2].v = 0 THEN [err |-> "CRASH", val |-> l]
             ELSE [err |-> "", val |-> ApplyOp(op, pr[1], pr[2])]

OpNote(op, l, r, res, now) ==
    [op |-> op, lt |-> l.t, lv |-> l.v, rt |-> r.t, rv |-> r.v,
     res |-> res.val, err |-> res.err, at |-> now]

OpValue(m, op, l, r, res, now) ==
    IF res.err # "" THEN Fail([m EXCEPT !.hist.lastEval = OpNote(op, l, r, res, now)],
                              res.err)
    ELSE NewValue([m EXCEPT !.hist.lastEval = OpNote(op, l, r, res, now)],
                  res.val.t, res.val.v)

EvalRight(a, b, op, now) ==
    IF b.err # "" THEN b
    ELSE OpValue(b.m, op, b.m.cells[a.c], b.m.cells[b.c],
                 OpResult(op, b.m.cells[a.c], b.m.cells[b.c]), now)

EvalLeft(a, op, e2, now) ==
    IF a.err # "" THEN a ELSE EvalRight(a, EvalExpr(a.m, e2), op, now)

EvalOp(m, op, e1, e2, now) == EvalLeft(EvalExpr(m, e1), op, e2, now)

(***************************************************************************)
(* The steps.  Every step is one statement of the running statement list,  *)
(* or the end of a statement list.                                         *)
(***************************************************************************)
Running == status = "run"

Commit(m, st, stt) ==
    /\ cells' = m.cells
    /\ objs' = m.objs
    /\ clos' = m.clos
    /\ env' = m.env
    /\ out' = m.out
    /\ cmeta' = m.cmeta
    /\ hist' = m.hist
    /\ stack' = st
    /\ status' = stt
    /\ steps' = steps + 1

\* super().error(...) or a Python exception: the run is aborted
Abort(m, e) ==
    /\ status' = e
    /\ steps' = steps + 1
    /\ hist' = m.hist
    /\ UNCHANGED <<cells, objs, clos, env, stack, out, cmeta>>

\* history of  y = x  for a plain variable x holding a primitive
CopyNote(name, field, e, after) ==
    IF field = "" /\ e.k = "var" /\ Get(env, e.a) # 0
       /\ IsPrim(cells[Get(env, e.a)].t)
    THEN [x |-> Get(env, e.a), y |-> Get(after.env, name),
          alias |-> Get(env, name) = Get(env, e.a)]
    ELSE after.hist.copied

Assigned(a, name, field, e, back) ==
    IF a.err # "" THEN Abort(back, a.err)
    ELSE Commit([a.m EXCEPT !.hist.copied = CopyNote(name, field, e, a.m)],
                stack, "run")

AssignCopied(s, name, field, e, back) ==
    Assigned(AssignTo(s.m, name, field, s.c, Active(stack), steps + 1),
             name, field, e, back)

\* history of  name[.field] = e: the statement, the Value e gave and its kind
AssignNote(m, name, field, src) ==
    [m EXCEPT !.hist.lastAssign = [name |-> name, field |-> field, src |-> src,
                                   srct |-> m.cells[src].t, at |-> m.now]]

AssignValue(r, name, field, e) ==
    IF r.err # "" THEN Abort(r.m, r.err)
    ELSE AssignCopied(AssignSource(AssignNote(r.m, name, field, r.c), r.c),
                      name, field, e,
                      [Machine EXCEPT !.hist = AssignNote(r.m, name, field, r.c).hist])

\* statement  name[.field] = e
Assign(name, field, e) ==
    /\ Running
    /\ AssignValue(EvalExpr(Machine, e), name, field, e)

\* statement  name = e1 op e2
AssignOp(name, op, e1, e2) ==
    /\ Running
    /\ AssignValue(EvalOp(Machine, op, e1, e2, steps + 1), name, "", NilLit)

(***************************************************************************)
(* Calls.  EnterCall is the common tail of __call_func and __call_method:  *)
(* the new environment is pushed and __run_statements pushes the scope of  *)
(* the body.                                                               *)
(***************************************************************************)
PushCall(b, fr) ==
    IF b.err # "" THEN Abort(b.m, b.err)
    ELSE Commit([b.m EXCEPT !.env = Append(Append(@, b.ne), EmptyMap)],
                Append(stack, fr), "run")

EnterCall(m, clo, recv, actuals, ne0, rn, rf) ==
    PushCall(PrepareParams(m, clo, actuals, WithClosedVariables(m, clo, ne0)),
             Frame("call", clo, recv, rn, rf, Len(env), ArgInfo(m, clo, actuals),
                   NilLit))

\* history of a call: the statement
CallNote(kind, name, mname, nargs) ==
    [Machine EXCEPT !.hist.lastCall = [kind |-> kind, name |-> name, mname |-> mname,
                                       nargs |-> nargs, at |-> steps + 1]]

CallTarget(f, actuals, rn, rf) ==
    IF f.err # "" THEN Abort(f.m, f.err)
    ELSE IF f.c = 0 THEN Abort(f.m, "NAME")
    ELSE IF clos[f.c].type # "CLOSURE" THEN Abort(f.m, "TYPE")
    ELSE EnterCall(f.m, f.c, 0, actuals, EmptyMap, rn, rf)

\* statement  fname(actuals)   or   rn[.rf] = fname(actuals)
CallFunc(fname, actuals, rn, rf) ==
    /\ Running
    /\ CallTarget(GetFuncByName(CallNote("func", fname, "", Len(actuals)), fname,
                                Len(actuals)),
                  actuals, rn, rf)

\* a search that passes over a field m that holds no Closure
RECURSIVE SearchForClosure(_, _, _, _)
SearchForClosure(m, curr, name, fuel) ==
    IF curr = 0 THEN Ok(m, 0)
    ELSE IF m.cells[curr].t # "OBJECT" THEN Fail(m, "CRASH")
    ELSE IF /\ name \in DOMAIN m.objs[m.cells[curr].v].values
            /\ m.cells[m.objs[m.cells[curr].v].values[name]].t = "CLOSURE"
    THEN Ok(m, m.objs[m.cells[curr].v].values[name])
    ELSE IF fuel = 0 THEN Fail(m, "HANG")
    ELSE SearchForClosure(m, m.objs[m.cells[curr].v].proto, name, fuel - 1)

\* the while loop of __call_method: the Value holding the method, 0 for None
RECURSIVE MethodSearch(_, _, _, _)
MethodSearch(m, curr, name, fuel) ==
    IF curr = 0 THEN Ok(m, 0)
    ELSE IF m.cells[curr].t # "OBJECT" THEN Fail(m, "CRASH")  \* no get_values()
    ELSE IF name \in DOMAIN m.objs[m.cells[curr].v].values
    THEN Ok(m, m.objs[m.cells[curr].v].values[name])
    ELSE IF fuel = 0 THEN Fail(m, "HANG")                     \* a cycle: no exit
    ELSE MethodSearch(m, m.objs[m.cells[curr].v].proto, name, fuel - 1)

\* the receiver's entry of the new environment
ThisBinding(obj) == [n \in {"this"} |-> obj]

MethodTarget(t, obj, actuals, rn, rf) ==
    IF t.err # "" THEN Abort(t.m, t.err)
    ELSE IF t.c = 0 THEN Abort(t.m, "NAME")
    ELSE IF cells[t.c].t # "CLOSURE" THEN Abort(t.m, "TYPE")
    ELSE EnterCall(t.m, cells[t.c].v, obj, actuals, ThisBinding(obj), rn, rf)

Receiver(m, obj, mname, actuals, rn, rf) ==
    IF obj = 0 THEN Abort(m, "NAME")
    ELSE IF cells[obj].t # "OBJECT" THEN Abort(m, "TYPE")
    ELSE MethodTarget(MethodSearch(m, obj, mname, Len(objs)), obj, actuals, rn, rf)

\* statement  objref.mname(actuals)   or   rn[.rf] = objref.mname(actuals)
CallMethod(objref, mname, actuals, rn, rf) ==
    /\ Running
    /\ Receiver(CallNote("method", objref, mname, Len(actuals)), Get(env, objref),
                mname, actuals, rn, rf)

\* get_printable: None for a Value that is no Int, String or Bool, and then
\* output + None is Python's TypeError
Printed(r) ==
    IF r.err # "" THEN Abort(r.m, r.err)
    ELSE IF r.m.cells[r.c].t \notin {"INT", "STRING", "BOOL"} THEN Abort(r.m, "CRASH")
    ELSE Commit([r.m EXCEPT !.out = Append(@, r.m.cells[r.c])], stack, "run")

\* statement  print(e)
CallPrint(e) ==
    /\ Running
    /\ Printed(EvalExpr(Machine, e))

(***************************************************************************)
(* Leaving statement lists.  PoppedOnReturn and PoppedOnEnd are the        *)
(* env.pop() calls a construct makes on each of its two exits.             *)
(***************************************************************************)
\* another exit: one env.pop() whatever is left
PopsOne(fr) == 1

\* __run_statements line 108, and __call_func / __call_method after the body
PoppedOnReturn(fr) == IF fr.kind = "call" THEN 2 ELSE 1
\* __run_statements line 111, and __call_func / __call_method after the body
PoppedOnEnd(fr) == IF fr.kind = "call" THEN 2 ELSE 1

RECURSIVE SumPopped(_, _, _)
SumPopped(st, i, j) ==
    IF i > j THEN 0 ELSE PoppedOnReturn(st[i]) + SumPopped(st, i + 1, j)

PopScopes(e, n) == SubSeq(e, 1, Len(e) - n)

\* history of an exit: the statement lists it ended, the while loops among them
ExitNote(kind, popped, before, e1) ==
    [kind |-> kind, popped |-> popped,
     loops |-> Cardinality({i \in 1..Len(stack) :
                               i > Len(stack) - popped /\ stack[i].kind = "while"}),
     before |-> before, after |-> Len(e1), at |-> steps + 1]

\* the caller's side of a finished call: the call statement discards val,
\* the assignment  rn[.rf] = call  goes on with Interpreter.__assign
Resumed(a, back, rest) ==
    IF a.err # "" THEN Abort(back, a.err) ELSE Commit(a.m, rest, "run")

ResumeCopied(s, fr, back, rest) ==
    Resumed(AssignTo(s.m, fr.retName, fr.retField, s.c, Active(rest), steps + 1),
            back, rest)

YieldNote(m, val) == [m EXCEPT !.hist.lastYield = [val |-> val, at |-> m.now]]

Resumes(m, fr, rest, val) ==
    IF fr.retName = "" THEN Commit(m, rest, "run")
    ELSE ResumeCopied(AssignSource(m, val), fr, [Machine EXCEPT !.hist = m.hist], rest)

\* return_val of __call_func / __call_method: val is the Value the call yields
Resume(m, fr, rest, val) == Resumes(YieldNote(m, val), fr, rest, val)

\* __do_return: the returned Value
\* history of  return e: the Value e evaluated to and the Value returned
RetNote(d, src) ==
    [d EXCEPT !.m.hist.lastRet = [src |-> src, val |-> d.c, at |-> d.m.now]]
Evaluated(r) == IF r.err # "" THEN r ELSE RetNote(DeepCopy(r.m, r.c), r.c)
ReturnValue(m, hasExpr, e) ==
    IF ~hasExpr THEN Ok(m, NilCell) ELSE Evaluated(EvalExpr(m, e))

\* a return in main: its statement list ends too, and with it the run
ReturnFromMain(r, e1) ==
    Commit([r.m EXCEPT !.env = e1,
                       !.hist.lastExit = ExitNote("return", Len(stack) + 1, 1, e1)],
           <<>>, "done")

ReturnFromCall(r, j, e1) ==
    Resume([r.m EXCEPT !.env = e1,
                       !.hist.lastExit = ExitNote("return", Len(stack) - j + 1,
                                                  stack[j].base, e1)],
           stack[j], SubSeq(stack, 1, j - 1), r.c)

Returned(r, j) ==
    IF r.err # "" THEN Abort(Machine, r.err)
    ELSE IF j = 0
    THEN ReturnFromMain(r, PopScopes(r.m.env, SumPopped(stack, 1, Len(stack)) + 1))
    ELSE ReturnFromCall(r, j, PopScopes(r.m.env, SumPopped(stack, j, Len(stack))))

\* statement  return [e]: every statement list up to the nearest call ends
Return(hasExpr, e) ==
    /\ Running
    /\ Returned(ReturnValue(Machine, hasExpr, e), TopCall(stack))

EndOf(fr, e1) ==
    Resume([Machine EXCEPT !.env = e1,
                           !.hist.lastExit = ExitNote("end", 1, fr.base, e1)],
           fr, SubSeq(stack, 1, Len(stack) - 1), NilCell)

\* the statement list of a function body ends without a return
EndBody ==
    /\ Running
    /\ stack # <<>>
    /\ stack[Len(stack)].kind = "call"
    /\ EndOf(stack[Len(stack)], PopScopes(env, PoppedOnEnd(stack[Len(stack)])))

\* the condition of an if or while: Int is coerced to Bool
CondOf(r) ==
    IF r.err # "" THEN [m |-> r.m, err |-> r.err, val |-> FALSE]
    ELSE IF r.m.cells[r.c].t \notin {"INT", "BOOL"}
    THEN [m |-> r.m, err |-> "TYPE", val |-> FALSE]
    ELSE [m |-> r.m, err |-> "", val |-> r.m.cells[r.c].v # 0]
CondValue(m, e) == CondOf(EvalExpr(m, e))

PushBlock(m, kind, cond) ==
    Commit([m EXCEPT !.env = Append(@, EmptyMap)],
           Append(stack, Frame(kind, 0, 0, "", "", Len(env), <<>>, cond)), "run")

IfBranch(c, hasElse) ==
    IF c.err # "" THEN Abort(Machine, c.err)
    ELSE IF c.val \/ hasElse THEN PushBlock(c.m, "if", NilLit)
    ELSE Commit(c.m, stack, "run")

\* statement  if (cond) { ... } [else { ... }]
EnterIf(cond, hasElse) ==
    /\ Running
    /\ IfBranch(CondValue(Machine, cond), hasElse)

WhileFirst(c, cond) ==
    IF c.err # "" THEN Abort(Machine, c.err)
    ELSE IF c.val THEN PushBlock(c.m, "while", cond)
    ELSE Commit(c.m, stack, "run")

\* statement  while (cond) { ... }: the first evaluation of the condition
EnterWhile(cond) ==
    /\ Running
    /\ WhileFirst(CondValue(Machine, cond), cond)

WhileAgain(c, back, rest) ==
    IF c.err # "" THEN Abort(back, c.err)
    ELSE IF c.val THEN Commit([c.m EXCEPT !.env = Append(@, EmptyMap)], stack, "run")
    ELSE Commit(c.m, rest, "run")

BlockEnded(fr, m1, rest) ==
    IF fr.kind = "if" THEN Commit(m1, rest, "run")
    ELSE WhileAgain(CondValue(m1, fr.cond), m1, rest)

\* the statement list of an if or while block ends; a while evaluates its
\* condition again
EndBlock ==
    /\ Running
    /\ stack # <<>>
    /\ stack[Len(stack)].kind # "call"
    /\ BlockEnded(stack[Len(stack)],
                  [Machine EXCEPT
                      !.env = PopScopes(env, PoppedOnEnd(stack[Len(stack)])),
                      !.hist.lastExit =
                          ExitNote("end", 1, stack[Len(stack)].base,
                                   PopScopes(env, PoppedOnEnd(stack[Len(stack)])))],
                  SubSeq(stack, 1, Len(stack) - 1))

\* main's statement list ends
EndMain ==
    /\ Running
    /\ stack = <<>>
    /\ Commit([Machine EXCEPT !.env = PopScopes(env, 1),
                              !.hist.lastExit = ExitNote("end", 1, 1, PopScopes(env, 1))],
              <<>>, "done")

(***************************************************************************)
(* Interpreter.run: the function table is built (one Closure with an empty *)
(* environment per top-level function), the environment is [{}], and       *)
(* __run_statements(main) has pushed the scope of main's statement list.   *)
(***************************************************************************)
Init ==
    /\ cells = <<NilValue>>
    /\ objs = <<>>
    /\ clos = [i \in 1..NumFuncs |-> [captured |-> EmptyMap, ast |-> i,
                                      type |-> "CLOSURE"]]
    /\ cmeta = [i \in 1..NumFuncs |-> [origin |-> EmptyMap, snap |-> EmptyMap,
                                        at |-> 0]]
    /\ env = <<EmptyMap, EmptyMap>>
    /\ stack = <<>>
    /\ status = "run"
    /\ steps = 0
    /\ out = <<>>
    /\ hist = InitHist

(***************************************************************************)
(* Programs about closures: variables a, o, f in main, closures without    *)
(* parameters, calls of f.                                                 *)
(***************************************************************************)
St(name, field, e) == [name |-> name, field |-> field, e |-> e]

ClosureAssigns ==
    { St("a", "", IntLit(1)), St("a", "", IntLit(2)), St("a", "", NilLit),
      St("o", "", ObjLit), St("o", "", IntLit(1)),
      St("o", "x", IntLit(1)), St("o", "x", IntLit(2)),
      St("f", "", Lambda(LamNone)) }

ClosureAssign ==
    /\ steps < MaxStepsClosure
    /\ \E s \in ClosureAssigns : Assign(s.name, s.field, s.e)
ClosureCall ==
    /\ steps < MaxStepsClosure
    /\ CallFunc("f", <<>>, "", "")
ClosureReturn ==
    /\ steps < MaxStepsClosure
    /\ Return(FALSE, NilLit)
ClosureEndBody ==
    /\ steps < MaxStepsClosure
    /\ EndBody

NextClosure == ClosureAssign \/ ClosureCall \/ ClosureReturn \/ ClosureEndBody
SpecClosure == Init /\ [][NextClosure]_vars

(***************************************************************************)
(* Programs about parameters and copies: variables a, b in main, closures  *)
(* with one formal p, by value or by reference, called with a variable,    *)
(* the literal 1 or the literal nil.                                       *)
(***************************************************************************)
ParamAssigns ==
    { St("a", "", IntLit(1)), St("a", "", IntLit(2)),
      St("b", "", Var("a")), St("b", "", IntLit(2)),
      St("p", "", IntLit(2)), St("p", "", Var("a")),
      St("f", "", Lambda(LamVal)), St("f", "", Lambda(LamRef)) }
ParamActuals == { <<Var("a")>>, <<IntLit(1)>>, <<NilLit>> }

ParamAssign ==
    /\ steps < MaxStepsParams
    /\ \E s \in ParamAssigns : Assign(s.name, s.field, s.e)
ParamCall ==
    /\ steps < MaxStepsParams
    /\ \E actuals \in ParamActuals : CallFunc("f", actuals, "", "")
ParamReturn ==
    /\ steps < MaxStepsParams
    /\ Return(FALSE, NilLit)
ParamEndBody ==
    /\ steps < MaxStepsParams
    /\ EndBody

NextParams == ParamAssign \/ ParamCall \/ ParamReturn \/ ParamEndBody
SpecParams == Init /\ [][NextParams]_vars

(***************************************************************************)
(* Programs about prototypes: objects o and d in main, their field x,      *)
(* d.proto = o, o.proto = d, o.proto = o, d.proto = a value of another     *)
(* kind, reads of d.x and o.x.                                             *)
(***************************************************************************)
ProtoAssigns ==
    { St("o", "", ObjLit), St("d", "", ObjLit),
      St("o", "x", IntLit(1)), St("d", "x", IntLit(2)),
      St("d", "proto", Var("o")), St("o", "proto", Var("d")),
      St("o", "proto", Var("o")),
      St("d", "proto", IntLit(1)), St("d", "proto", BoolLit(1)),
      St("d", "proto", StrLit(1)), St("d", "proto", NilLit),
      St("d", "proto", Var("foo")),
      St("r", "", Dot("d", "x")), St("r", "", Dot("o", "x")) }

ProtoAssign ==
    /\ steps < MaxStepsProto
    /\ \E s \in ProtoAssigns : Assign(s.name, s.field, s.e)
ProtoEndMain ==
    /\ steps < MaxStepsProto
    /\ EndMain

NextProto == ProtoAssign \/ ProtoEndMain
SpecProto == Init /\ [][NextProto]_vars

(***************************************************************************)
(* Programs about methods: objects o and d, closures stored in their field *)
(* m, the Int d.m = 1, d.proto = o, method calls, writes through this in a *)
(* body.                                                                   *)
(***************************************************************************)
MethodAssigns ==
    { St("o", "", ObjLit), St("d", "", ObjLit),
      St("o", "m", Lambda(LamNone)), St("d", "m", Lambda(LamNone)),
      St("d", "proto", Var("o")), St("d", "m", IntLit(1)),
      St("this", "x", IntLit(1)) }

MethodAssign ==
    /\ steps < MaxStepsMethod
    /\ \E s \in MethodAssigns : Assign(s.name, s.field, s.e)
MethodCall ==
    /\ steps < MaxStepsMethod
    /\ \E n \in {"o", "d"} : CallMethod(n, "m", <<>>, "", "")
MethodReturn ==
    /\ steps < MaxStepsMethod
    /\ Return(FALSE, NilLit)
MethodEndBody ==
    /\ steps < MaxStepsMethod
    /\ EndBody

NextMethod == MethodAssign \/ MethodCall \/ MethodReturn \/ MethodEndBody
SpecMethod == Init /\ [][NextMethod]_vars

(***************************************************************************)
(* Programs about comparisons: objects o and d, the alias d = o, their     *)
(* field x, and  r = e1 op e2  over o, d and the literal 1.                *)
(***************************************************************************)
EqAssigns ==
    { St("o", "", ObjLit), St("d", "", ObjLit), St("d", "", Var("o")),
      St("o", "x", IntLit(1)), St("d", "x", IntLit(1)) }
EqOperands ==
    { <<Var("o"), Var("o")>>, <<Var("o"), Var("d")>>, <<Var("o"), IntLit(1)>>,
      <<IntLit(1), Var("o")>> }
EqOperators == {"==", "!=", "<"}

EqAssign ==
    /\ steps < MaxStepsEq
    /\ \E s \in EqAssigns : Assign(s.name, s.field, s.e)
EqCompare ==
    /\ steps < MaxStepsEq
    /\ \E op \in EqOperators, es \in EqOperands : AssignOp("r", op, es[1], es[2])

NextEq == EqAssign \/ EqCompare
SpecEq == Init /\ [][NextEq]_vars

(***************************************************************************)
(* Programs about statement lists: if and while blocks, calls of the       *)
(* closure f and of the method o.m, returns at any depth.                  *)
(***************************************************************************)
CtlAssigns ==
    { St("a", "", IntLit(1)), St("a", "", IntLit(0)),
      St("f", "", Lambda(LamNone)),
      St("o", "", ObjLit), St("o", "m", Lambda(LamNone)) }
CtlConds == { BoolLit(1), Var("a") }

CtlAssign ==
    /\ steps < MaxStepsCtl
    /\ \E s \in CtlAssigns : Assign(s.name, s.field, s.e)
CtlIf ==
    /\ steps < MaxStepsCtl
    /\ \E cond \in CtlConds, hasElse \in BOOLEAN : EnterIf(cond, hasElse)
CtlWhile ==
    /\ steps < MaxStepsCtl
    /\ \E cond \in CtlConds : EnterWhile(cond)
CtlEndBlock ==
    /\ steps < MaxStepsCtl
    /\ EndBlock
CtlCall ==
    /\ steps < MaxStepsCtl
    /\ CallFunc("f", <<>>, "", "")
CtlCallMethod ==
    /\ steps < MaxStepsCtl
    /\ CallMethod("o", "m", <<>>, "", "")
CtlReturn ==
    /\ steps < MaxStepsCtl
    /\ \E hasExpr \in BOOLEAN : Return(hasExpr, Var("a"))
CtlEndBody ==
    /\ steps < MaxStepsCtl
    /\ EndBody
CtlEndMain ==
    /\ steps < MaxStepsCtl
    /\ EndMain

NextCtl ==
    \/ CtlAssign \/ CtlIf \/ CtlWhile \/ CtlEndBlock \/ CtlCall \/ CtlCallMethod
    \/ CtlReturn \/ CtlEndBody \/ CtlEndMain
SpecCtl == Init /\ [][NextCtl]_vars

(***************************************************************************)
(* Programs about returned values: an object o with field x, a closure f,  *)
(* r = f(), and bodies that return o, f or a primitive.                    *)
(***************************************************************************)
ReturnAssigns ==
    { St("o", "", ObjLit), St("o", "x", IntLit(1)), St("r", "x", IntLit(2)),
      St("a", "", IntLit(1)), St("f", "", Lambda(LamNone)) }
ReturnExprs == { Var("o"), Var("f"), Var("a") }

ReturnAssign ==
    /\ steps < MaxStepsReturn
    /\ \E s \in ReturnAssigns : Assign(s.name, s.field, s.e)
ReturnCall ==
    /\ steps < MaxStepsReturn
    /\ CallFunc("f", <<>>, "r", "")
ReturnReturn ==
    /\ steps < MaxStepsReturn
    /\ \E e \in ReturnExprs : Return(TRUE, e)
ReturnEndBody ==
    /\ steps < MaxStepsReturn
    /\ EndBody

NextReturn == ReturnAssign \/ ReturnCall \/ ReturnReturn \/ ReturnEndBody
SpecReturn == Init /\ [][NextReturn]_vars

(***************************************************************************)
(* Programs about the function table: the top-level function foo(ref p),   *)
(* a variable f that is assigned foo and then an Int, calls of foo.        *)
(***************************************************************************)
TableAssigns ==
    { St("f", "", Var("foo")), St("f", "", IntLit(1)), St("a", "", IntLit(1)) }

TableAssign ==
    /\ steps < MaxStepsTable
    /\ \E s \in TableAssigns : Assign(s.name, s.field, s.e)
TableCall ==
    /\ steps < MaxStepsTable
    /\ \E fname \in {"foo", "f"} : CallFunc(fname, <<Var("a")>>, "", "")
TableReturn ==
    /\ steps < MaxStepsTable
    /\ Return(FALSE, NilLit)
TableEndBody ==
    /\ steps < MaxStepsTable
    /\ EndBody

NextTable == TableAssign \/ TableCall \/ TableReturn \/ TableEndBody
SpecTable == Init /\ [][NextTable]_vars

(***************************************************************************)
(* Programs about operators on mixed kinds: r = e1 op e2 over Int, Bool,   *)
(* String and nil literals and the closure f, printing the result, and     *)
(* reading and assigning q.x where q is bound nowhere.                     *)
(***************************************************************************)
OpsOperands ==
    { IntLit(1), IntLit(0), BoolLit(1), BoolLit(0), StrLit(1), StrLit(NilPayload),
      NilLit, Var("f") }
OpsOperators == {"==", "!=", "/"}

OpsAssign ==
    /\ steps < MaxStepsOps
    /\ \E s \in { St("f", "", Lambda(LamNone)), St("q", "x", IntLit(1)) } :
          Assign(s.name, s.field, s.e)
OpsCompare ==
    /\ steps < MaxStepsOps
    /\ \E op \in OpsOperators, e1 \in OpsOperands, e2 \in OpsOperands :
          AssignOp("r", op, e1, e2)
OpsPrint ==
    /\ steps < MaxStepsOps
    /\ \E e \in {Var("r"), Var("f"), NilLit, Dot("q", "x")} : CallPrint(e)

NextOps == OpsAssign \/ OpsCompare \/ OpsPrint
SpecOps == Init /\ [][NextOps]_vars

(***************************************************************************)
(* Programs about calls that cannot be made: the top-level function        *)
(* foo(ref p), the undefined name bar, a closure f and a method o.m        *)
(* without parameters, each called with no or one argument; print(a).      *)
(***************************************************************************)
CallsAssigns ==
    { St("a", "", IntLit(1)), St("f", "", Lambda(LamNone)),
      St("o", "", ObjLit), St("o", "m", Lambda(LamNone)) }
CallsActuals == { <<>>, <<Var("a")>> }

CallsAssign ==
    /\ steps < MaxStepsCalls
    /\ \E s \in CallsAssigns : Assign(s.name, s.field, s.e)
CallsCall ==
    /\ steps < MaxStepsCalls
    /\ \E fname \in {"foo", "bar", "f"}, actuals \in CallsActuals :
          CallFunc(fname, actuals, "", "")
CallsCallMethod ==
    /\ steps < MaxStepsCalls
    /\ \E actuals \in CallsActuals : CallMethod("o", "m", actuals, "", "")
CallsPrint ==
    /\ steps < MaxStepsCalls
    /\ CallPrint(Var("a"))
CallsEndBody ==
    /\ steps < MaxStepsCalls
    /\ EndBody

NextCalls == CallsAssign \/ CallsCall \/ CallsCallMethod \/ CallsPrint \/ CallsEndBody
SpecCalls == Init /\ [][NextCalls]_vars

(***************************************************************************)
(* Programs about Object arguments: an object o with field x, closures     *)
(* with one formal p by value or by reference, the call f(o), and in the   *)
(* body  p.x = 2  and  r = p == o.                                         *)
(***************************************************************************)
ArgsAssigns ==
    { St("o", "", ObjLit), St("o", "x", IntLit(1)),
      St("f", "", Lambda(LamVal)), St("f", "", Lambda(LamRef)),
      St("p", "x", IntLit(2)) }

ArgsAssign ==
    /\ steps < MaxStepsArgs
    /\ \E s \in ArgsAssigns : Assign(s.name, s.field, s.e)
ArgsCompare ==
    /\ steps < MaxStepsArgs
    /\ AssignOp("r", "==", Var("p"), Var("o"))
ArgsCall ==
    /\ steps < MaxStepsArgs
    /\ CallFunc("f", <<Var("o")>>, "", "")
ArgsEndBody ==
    /\ steps < MaxStepsArgs
    /\ EndBody

NextArgs == ArgsAssign \/ ArgsCompare \/ ArgsCall \/ ArgsEndBody
SpecArgs == Init /\ [][NextArgs]_vars

(***************************************************************************)
(* The function whose body is running: the nearest call on the stack.      *)
(***************************************************************************)
FormalNames(c) == {Asts[clos[c].ast].args[i].name : i \in 1..Len(Asts[clos[c].ast].args)}
CalleeScopes(j) == SubSeq(env, stack[j].base + 1, Len(env))
\* the captured names of Closure c that its body reads as captured: the
\* formal parameters shadow captured names
ReadsCaptured(c) == DOMAIN clos[c].captured \ FormalNames(c)
\* no statement run inside a call of c has assigned the Value the name is bound to
Unwritten(c, n) == <<c, Get(env, n)>> \notin hist.bodyWrites

\* C1: while the body of a function invoked by a function call runs, a name
\* resolves only if the callee's own scopes (captured variables, parameters,
\* variables the body created) bind it: the caller's variables are not visible.
C1_LexicalScoping ==
    (status = "run" /\ TopCall(stack) > 0 /\ stack[TopCall(stack)].recv = 0)
    => \A n \in AllNames :
          Get(env, n) = Get(CalleeScopes(TopCall(stack)), n)

\* C2: in the body of a closure, a captured name whose value was an Int, Bool,
\* String or Nil when the lambda was evaluated reads the value of that moment,
\* whatever was assigned to the outer variable since.
C2_PrimitiveCaptureByValue ==
    TopCall(stack) > 0
    => \A n \in ReadsCaptured(stack[TopCall(stack)].clo) :
          (IsPrim(cmeta[stack[TopCall(stack)].clo].snap[n].t)
              /\ Unwritten(stack[TopCall(stack)].clo, n))
          => cells[Get(env, n)] = cmeta[stack[TopCall(stack)].clo].snap[n]

\* a body runs and reads the creation-time value of a captured primitive
\* whose outer variable holds another value by now
C2_Witness ==
    /\ TopCall(stack) > 0
    /\ \E n \in ReadsCaptured(stack[TopCall(stack)].clo) :
          /\ IsPrim(cmeta[stack[TopCall(stack)].clo].snap[n].t)
          /\ Unwritten(stack[TopCall(stack)].clo, n)
          /\ cmeta[stack[TopCall(stack)].clo].origin[n] # 0
          /\ cells[cmeta[stack[TopCall(stack)].clo].origin[n]]
                # cmeta[stack[TopCall(stack)].clo].snap[n]
          /\ cells[Get(env, n)] = cmeta[stack[TopCall(stack)].clo].snap[n]

\* C3: in the body of a closure, a captured name whose value was an Object or
\* Closure when the lambda was evaluated still reads that Object or Closure
\* after the outer variable was assigned another value.
C3_ReassignmentNotVisible ==
    TopCall(stack) > 0
    => \A n \in ReadsCaptured(stack[TopCall(stack)].clo) :
          (cmeta[stack[TopCall(stack)].clo].snap[n].t \in {"OBJECT", "CLOSURE"}
              /\ Unwritten(stack[TopCall(stack)].clo, n))
          => cells[Get(env, n)] = cmeta[stack[TopCall(stack)].clo].snap[n]

\* the captured names the last field assignment  o.x = v  went through: the
\* outer variable held an Object when the lambda was evaluated, and neither
\* it nor o.x was assigned since
SetThroughOuter(c) ==
    {n \in ReadsCaptured(c) :
        /\ hist.lastSet.cell # 0
        /\ cmeta[c].snap[n].t = "OBJECT"
        /\ cmeta[c].origin[n] = hist.lastSet.cell}

\* what the body reads for  n.field
ReadsField(n, field, val) ==
    /\ EvalName(Machine, n, field).err = ""
    /\ cells[EvalName(Machine, n, field).c] = val

\* C4: a field assignment o.x = v through the outer variable is visible in the
\* body of a closure that captured o as an Object: the body reads v for o.x.
C4_SharedObjectCapture ==
    TopCall(stack) > 0
    => \A n \in SetThroughOuter(stack[TopCall(stack)].clo) :
          ReadsField(n, hist.lastSet.field, cells[hist.lastSet.fcell])

\* a body runs after  o.x = v  was executed later than the lambda
C4_Witness ==
    /\ TopCall(stack) > 0
    /\ \E n \in SetThroughOuter(stack[TopCall(stack)].clo) :
          /\ hist.lastSet.at > cmeta[stack[TopCall(stack)].clo].at
          /\ ReadsField(n, hist.lastSet.field, cells[hist.lastSet.fcell])

\* the formal parameters of the calls on the stack whose actual argument is a
\* variable: <<frame, argument>>
VarArgs(st) ==
    UNION { { <<j, i>> : i \in {z \in 1..Len(st[j].args) : st[j].args[z].acell # 0} } :
            j \in CallFrames(st) }
ArgOf(ja) == stack[ja[1]].args[ja[2]]
\* the Value the formal is bound to in the callee's environment
FormalCell(ja) == env[stack[ja[1]].base + 1][ArgOf(ja).name]

\* C5: a step that assigns a by-value formal leaves the caller's variable as
\* it was, a step that assigns a by-reference formal gives the caller's
\* variable the same value, and when the call has returned the caller's
\* variable is bound to the Value it was bound to before.
C5_ParameterPassing ==
    [][\A ja \in VarArgs(stack) :
          /\ (ja[1] <= Len(stack') /\ cells'[FormalCell(ja)] # cells[FormalCell(ja)])
             => IF ArgOf(ja).ref
                THEN cells'[ArgOf(ja).acell] = cells'[FormalCell(ja)]
                ELSE cells'[ArgOf(ja).acell] = cells[ArgOf(ja).acell]
          /\ (ja[1] > Len(stack') /\ status' = "run")
             => /\ Get(env', ArgOf(ja).aname) = ArgOf(ja).acell
                /\ ArgOf(ja).ref
                   => cells'[ArgOf(ja).acell] = cells[FormalCell(ja)]]_vars

\* the body of a call has changed the caller's variable through a
\* by-reference formal
C5_Witness ==
    \E ja \in VarArgs(stack) :
        /\ ArgOf(ja).ref
        /\ cells[ArgOf(ja).acell] # ArgOf(ja).asnap
        /\ cells[FormalCell(ja)] = cells[ArgOf(ja).acell]

\* C6: after  y = x  for a primitive x (x and y not already one Value), a step
\* that changes x leaves y as it is and a step that changes y leaves x as it
\* is; the assignment itself gives y the value of x and leaves x.
C6_PrimitiveCopy ==
    [][/\ (hist.copied.x # 0 /\ ~hist.copied.alias)
          => /\ cells'[hist.copied.x] # cells[hist.copied.x]
                => cells'[hist.copied.y] = cells[hist.copied.y]
             /\ cells'[hist.copied.y] # cells[hist.copied.y]
                => cells'[hist.copied.x] = cells[hist.copied.x]
       /\ (hist'.copied # hist.copied /\ ~hist'.copied.alias)
          => /\ cells'[hist'.copied.y] = cells[hist'.copied.x]
             /\ cells'[hist'.copied.x] = cells[hist'.copied.x]]_vars

\* after  y = x  one of the two was assigned another value and the other
\* kept the copied one
C6_Witness ==
    /\ hist.copied.x # 0
    /\ ~hist.copied.alias
    /\ cells[hist.copied.x] # cells[hist.copied.y]

\* the variables that hold an Object, and the Object a variable holds
ObjectVars == {n \in AllNames : Get(env, n) # 0 /\ cells[Get(env, n)].t = "OBJECT"}
ObjOf(n) == objs[cells[Get(env, n)].v]
\* the Object an Object delegates to: 0 for none
ProtoOf(o) ==
    IF o.proto # 0 /\ cells[o.proto].t = "OBJECT" THEN cells[o.proto].v ELSE 0

\* a read of n.f yields the object's own field, or else its prototype's
FieldReads ==
    \A n \in ObjectVars, f \in AllFields :
        /\ f \in DOMAIN ObjOf(n).values
           => ReadsField(n, f, cells[ObjOf(n).values[f]])
        /\ (f \notin DOMAIN ObjOf(n).values /\ ProtoOf(ObjOf(n)) # 0
               /\ f \in DOMAIN objs[ProtoOf(ObjOf(n))].values)
           => ReadsField(n, f, cells[objs[ProtoOf(ObjOf(n))].values[f]])

\* a step changes no field table but that of the object assigned to, and
\* there only the assigned field
OnlyOwnTable ==
    \A ob \in 1..Len(objs) :
        objs'[ob].values # objs[ob].values
        => /\ hist'.lastSet.at = steps'
           /\ ob = cells[hist'.lastSet.cell].v
           /\ objs'[ob].values
                 = Put(objs[ob].values, hist'.lastSet.field, hist'.lastSet.fcell)

\* C7: a read of obj.f yields obj's own field when it has one and otherwise
\* the field of its prototype, and a field assignment  obj.f = v  changes only
\* obj's own field table, never that of an object on its prototype chain.
C7_PrototypeShadowing == [][OnlyOwnTable /\ FieldReads']_vars

\* derived.x = 2 was just executed with derived.proto = base and base.x = 1:
\* derived.x reads 2 and base.x still reads 1
C7_Witness ==
    \E n \in ObjectVars, b \in ObjectVars :
        /\ ProtoOf(ObjOf(n)) = cells[Get(env, b)].v
        /\ hist.lastSet.at = steps
        /\ hist.lastSet.cell = Get(env, n)
        /\ hist.lastSet.field = "x"
        /\ ReadsField(n, "x", [t |-> "INT", v |-> 2])
        /\ ReadsField(b, "x", [t |-> "INT", v |-> 1])

\* C8: when the body of a method called as obj.m(args) starts, the name this
\* refers to the receiver obj.
C8_ReceiverBinding ==
    [][(/\ Len(stack') = Len(stack) + 1
        /\ stack'[Len(stack')].kind = "call"
        /\ stack'[Len(stack')].recv # 0)
       => /\ Get(env', "this") # 0
          /\ cells'[Get(env', "this")].t = "OBJECT"
          /\ cells'[Get(env', "this")].v = cells[stack'[Len(stack')].recv].v]_vars

\* C9: with an Object operand, == yields true exactly when both operands are
\* one heap object, != yields the opposite, every other operator is a Type
\* error.
C9_ObjectIdentity ==
    (hist.lastEval.op # "" /\ "OBJECT" \in {hist.lastEval.lt, hist.lastEval.rt})
    => IF hist.lastEval.op \in {"==", "!="}
       THEN /\ hist.lastEval.err = ""
            /\ hist.lastEval.res.t = "BOOL"
            /\ (hist.lastEval.res.v = 1)
               <=> ((hist.lastEval.op = "==")
                    <=> (/\ hist.lastEval.lt = "OBJECT"
                         /\ hist.lastEval.rt = "OBJECT"
                         /\ hist.lastEval.lv = hist.lastEval.rv))
            /\ hist.lastEval.res.v \in {0, 1}
       ELSE hist.lastEval.err = "TYPE"

\* the fields of two Objects have the same names and contents
SameFields(o1, o2) ==
    /\ DOMAIN o1.values = DOMAIN o2.values
    /\ \A f \in DOMAIN o1.values : cells[o1.values[f]] = cells[o2.values[f]]

\* two independently created Objects with the same field were just compared
\* by == and the result is false
C9_Witness ==
    /\ hist.lastEval.at = steps
    /\ hist.lastEval.op = "=="
    /\ hist.lastEval.lt = "OBJECT"
    /\ hist.lastEval.rt = "OBJECT"
    /\ hist.lastEval.lv # hist.lastEval.rv
    /\ DOMAIN objs[hist.lastEval.lv].values # {}
    /\ SameFields(objs[hist.lastEval.lv], objs[hist.lastEval.rv])
    /\ hist.lastEval.res = [t |-> "BOOL", v |-> 0]

\* the scopes of the frames on the stack lie one on another above main's
ScopesOf(st, i) ==
    IF i = 0 THEN 2 ELSE st[i].base + FrameWidth(st[i])

\* C10: when a statement list, a function call or a method call has ended,
\* by its end or by a return at any depth, the environment holds the number
\* of scopes it held when that began; while the program runs, the scopes are
\* exactly those of the statement lists and calls that have not ended.
C10_ScopeDiscipline ==
    /\ hist.lastExit.kind # "" => hist.lastExit.after = hist.lastExit.before
    /\ status = "run"
       => /\ Len(env) = ScopesOf(stack, Len(stack))
          /\ \A i \in 1..Len(stack) : stack[i].base = ScopesOf(stack, i - 1)
    /\ status = "done" => Len(env) = 1

\* a return inside a while inside an if inside a called body has ended the call
C10_Witness ==
    /\ status = "run"
    /\ hist.lastExit.kind = "return"
    /\ hist.lastExit.popped >= 3
    /\ hist.lastExit.after = hist.lastExit.before
    /\ Len(env) = ScopesOf(stack, Len(stack))

\* C11: when a return statement has just returned an Object or Closure from
\* a call, the Value the caller receives has the heap payload of the Value
\* evaluated in the callee.
C11_ReturnSharesPayload ==
    (/\ status = "run"
     /\ hist.lastRet.src # 0
     /\ hist.lastRet.at = steps
     /\ cells[hist.lastRet.src].t \in {"OBJECT", "CLOSURE"})
    => /\ cells[hist.lastRet.val].t = cells[hist.lastRet.src].t
       /\ cells[hist.lastRet.val].v = cells[hist.lastRet.src].v

\* C12: the Closure objects of the function table stay as they were built:
\* callable, without captured variables, each with its function definition.
C12_FunctionTableImmutable ==
    \A i \in 1..NumFuncs :
        clos[i] = [captured |-> EmptyMap, ast |-> i, type |-> "CLOSURE"]

\* C13: == on two operands of different kinds, neither an Object, yields
\* false and != yields true, without an error.
C13_MismatchedEquality ==
    (/\ hist.lastEval.op \in {"==", "!="}
     /\ hist.lastEval.lt # hist.lastEval.rt
     /\ "OBJECT" \notin {hist.lastEval.lt, hist.lastEval.rt})
    => /\ hist.lastEval.err = ""
       /\ hist.lastEval.res = [t |-> "BOOL", v |-> B2N(hist.lastEval.op = "!=")]

\* the step is the statement  name.proto = e, and e evaluated to a Value
ProtoAssigned ==
    /\ hist'.lastAssign.at = steps'
    /\ hist'.lastAssign.field = "proto"

\* C14: name.proto = e with name bound nowhere and e an Object binds name in
\* the innermost scope to a new Object without fields whose prototype is that
\* Object, and the run goes on.
C14_ImplicitObject ==
    [][(/\ ProtoAssigned
        /\ Get(env, hist'.lastAssign.name) = 0
        /\ hist'.lastAssign.srct = "OBJECT")
       => /\ status' = "run"
          /\ hist'.lastAssign.name \in DOMAIN env'[Len(env')]
          /\ cells'[Get(env', hist'.lastAssign.name)].t = "OBJECT"
          /\ objs'[cells'[Get(env', hist'.lastAssign.name)].v].values = EmptyMap
          /\ objs'[cells'[Get(env', hist'.lastAssign.name)].v].proto # 0]_vars

\* C16: name.proto = e with name bound to an Object and e no Object aborts the
\* run with a Type error and leaves every Object as it was.
C16_ProtoTypeCheck ==
    [][(/\ ProtoAssigned
        /\ Get(env, hist'.lastAssign.name) # 0
        /\ cells[Get(env, hist'.lastAssign.name)].t = "OBJECT"
        /\ hist'.lastAssign.srct # "OBJECT")
       => /\ status' = "TYPE"
          /\ objs' = objs]_vars

\* C16, amended: name.proto = e with name bound to an Object aborts the run
\* with a Type error when e is an Int, Bool or Closure and with a
\* Name/Resolution error when e is a String or nil; every Object stays as it
\* was.
C16_ProtoCheckByKind ==
    [][(/\ ProtoAssigned
        /\ Get(env, hist'.lastAssign.name) # 0
        /\ cells[Get(env, hist'.lastAssign.name)].t = "OBJECT"
        /\ hist'.lastAssign.srct # "OBJECT")
       => /\ status' = IF hist'.lastAssign.srct \in {"STRING", "NIL"} THEN "NAME"
                       ELSE "TYPE"
          /\ objs' = objs]_vars

\* d.proto = 1 was just executed for an Object d and the run has ended with
\* a Type error
C16_Witness ==
    /\ status = "TYPE"
    /\ hist.lastAssign.at = steps
    /\ hist.lastAssign.field = "proto"
    /\ hist.lastAssign.srct = "INT"
    /\ Get(env, hist.lastAssign.name) # 0
    /\ cells[Get(env, hist.lastAssign.name)].t = "OBJECT"

\* the step is a call statement
Called == hist'.lastCall.at = steps'

\* the number of formal parameters of a Closure
Arity(c) == Len(Asts[clos[c].ast].args)

\* the callable the call resolves to exists and takes another number of
\* arguments: a top-level function, a closure held in a variable, a method
WrongArity(call) ==
    IF call.kind = "func"
    THEN IF call.name \in DOMAIN FuncTable
         THEN call.nargs \notin DOMAIN FuncTable[call.name]
         ELSE /\ Get(env, call.name) # 0
              /\ cells[Get(env, call.name)].t = "CLOSURE"
              /\ Arity(cells[Get(env, call.name)].v) # call.nargs
    ELSE /\ Get(env, call.name) # 0
         /\ cells[Get(env, call.name)].t = "OBJECT"
         /\ MethodSearch(Machine, Get(env, call.name), call.mname, Len(objs)).err = ""
         /\ MethodSearch(Machine, Get(env, call.name), call.mname, Len(objs)).c # 0
         /\ cells[MethodSearch(Machine, Get(env, call.name), call.mname,
                               Len(objs)).c].t = "CLOSURE"
         /\ Arity(cells[MethodSearch(Machine, Get(env, call.name), call.mname,
                                     Len(objs)).c].v) # call.nargs

\* C15: a call with a number of arguments other than the callable's number
\* of formal parameters aborts the run with a Name/Resolution error.
C15_ArityIsNameError ==
    [][(Called /\ WrongArity(hist'.lastCall)) => status' = "NAME"]_vars

\* C17: a call of a name that is neither in the function table nor bound in
\* the environment aborts the run with a Name/Resolution error, nothing of
\* the program's state or output changes at that call, and no step follows
\* an aborted run.
C17_UndefinedFunctionFailsFast ==
    [][/\ status = "run"
       /\ (/\ Called
           /\ hist'.lastCall.kind = "func"
           /\ hist'.lastCall.name \notin DOMAIN FuncTable
           /\ Get(env, hist'.lastCall.name) = 0)
          => /\ status' = "NAME"
             /\ UNCHANGED <<cells, objs, clos, env, stack, out>>]_vars

\* after some output the undefined function was called and the run has ended
\* with a Name/Resolution error
C17_Witness ==
    /\ status = "NAME"
    /\ hist.lastCall.at = steps
    /\ hist.lastCall.kind = "func"
    /\ hist.lastCall.name \notin DOMAIN FuncTable
    /\ Get(env, hist.lastCall.name) = 0
    /\ out # <<>>

\* C15, amended: a call with a wrong number of arguments aborts the run with
\* a Type error when the callable is a closure held in a variable, and with a
\* Name/Resolution error when it is a top-level function or a method.
C15_ArityErrorByCallable ==
    [][(Called /\ WrongArity(hist'.lastCall))
       => status' = IF /\ hist'.lastCall.kind = "func"
                       /\ hist'.lastCall.name \notin DOMAIN FuncTable
                    THEN "TYPE" ELSE "NAME"]_vars

\* the closure held in a variable was just called with a wrong number of
\* arguments and the run has ended with a Type error
C15_Witness ==
    /\ status = "TYPE"
    /\ hist.lastCall.at = steps
    /\ hist.lastCall.kind = "func"
    /\ hist.lastCall.name \notin DOMAIN FuncTable
    /\ WrongArity(hist.lastCall)

(***************************************************************************)
(* C18: a run that does not complete normally ends in a Name/Resolution    *)
(* error or a Type error: the only outcomes of a run are running, done,    *)
(* NAME and TYPE; no host-level crash is reachable, in particular not for  *)
(* reading or assigning q.x with q unbound, for integer division by zero,  *)
(* or for print applied to a Nil, Object or Closure value.                 *)
(***************************************************************************)
C18_TwoFailureOutcomes ==
    status \in {"run", "done", "NAME", "TYPE"}

\* the scopes of environment e that bind name n
ScopesBinding(e, n) == {i \in 1..Len(e) : n \in DOMAIN e[i]}

\* the step is a finished assignment  name = e  to a plain name
PlainAssigned ==
    /\ status' = "run"
    /\ hist'.lastAssign.at = steps'
    /\ steps' = steps + 1
    /\ hist'.lastAssign.field = ""

\* the step is the end of the statement list of an if or while block
BlockExited ==
    /\ status' = "run"
    /\ stack # <<>>
    /\ stack[Len(stack)].kind # "call"
    /\ hist'.lastExit.at = steps'
    /\ steps' = steps + 1
    /\ hist'.lastExit.kind = "end"

(***************************************************************************)
(* C19: an assignment to a plain name that is bound somewhere in the       *)
(* environment overwrites the binding in the nearest enclosing scope that  *)
(* contains the name and adds no binding to any scope; an assignment to a  *)
(* name bound nowhere creates the binding in the innermost scope only; a   *)
(* name bound only in the scope of an if/while block is unbound when the   *)
(* block's statement list has ended.                                       *)
(***************************************************************************)
C19_AssignmentTarget ==
    [][/\ (PlainAssigned /\ ScopesBinding(env, hist'.lastAssign.name) # {})
          => /\ Len(env') = Len(env)
             /\ \A i \in 1..Len(env) : DOMAIN env'[i] = DOMAIN env[i]
             /\ cells'[env'[MaxOf(ScopesBinding(env, hist'.lastAssign.name))]
                           [hist'.lastAssign.name]]
                = cells'[hist'.lastAssign.src]
       /\ (PlainAssigned /\ ScopesBinding(env, hist'.lastAssign.name) = {})
          => /\ Len(env') = Len(env)
             /\ \A i \in 1..(Len(env) - 1) : env'[i] = env[i]
             /\ DOMAIN env'[Len(env)]
                = DOMAIN env[Len(env)] \cup {hist'.lastAssign.name}
             /\ cells'[env'[Len(env)][hist'.lastAssign.name]]
                = cells'[hist'.lastAssign.src]
       /\ BlockExited
          => \A n \in DOMAIN env[Len(env)] :
                ScopesBinding(env, n) = {Len(env)} => Get(env', n) = 0]_vars

\* a = 0 has run in a body where a is bound in the closure's scope and in
\* main's scope: the nearer binding holds 0, main's still holds 1
C19_Witness ==
    /\ status = "run"
    /\ hist.lastAssign.at = steps
    /\ hist.lastAssign.name = "a"
    /\ hist.lastAssign.field = ""
    /\ Cardinality(ScopesBinding(env, "a")) >= 2
    /\ cells[Get(env, "a")] = [t |-> "INT", v |-> 0]
    /\ cells[env[2]["a"]] = [t |-> "INT", v |-> 1]
    /\ "a" \in DOMAIN env[2]

\* a was first assigned in a block, the block has ended and a is unbound
C19_BlockLocal ==
    /\ status = "run"
    /\ hist.lastExit.at = steps
    /\ hist.lastExit.kind = "end"
    /\ hist.lastAssign.at = steps - 1
    /\ hist.lastAssign.name = "a"
    /\ hist.lastAssign.field = ""
    /\ Get(env, "a") = 0

\* the first object with a field name in its own table, walking from object
\* o along proto links: its index, 0 when the chain ends without one, -1
\* when the walk has not ended after fuel links
RECURSIVE FirstHolder(_, _, _)
FirstHolder(o, name, fuel) ==
    IF name \in DOMAIN objs[o].values THEN o
    ELSE IF objs[o].proto = 0 THEN 0
    ELSE IF fuel = 0 THEN -1
    ELSE FirstHolder(cells[objs[o].proto].v, name, fuel - 1)

\* the Value that the first holder of the called method has for it
HolderEntry(call) ==
    objs[FirstHolder(cells[Get(env, call.name)].v, call.mname, Len(objs))]
        .values[call.mname]

\* the step is a method call on a name bound to an Object
MethodCalled ==
    /\ Called
    /\ steps' = steps + 1
    /\ hist'.lastCall.kind = "method"
    /\ Get(env, hist'.lastCall.name) # 0
    /\ cells[Get(env, hist'.lastCall.name)].t = "OBJECT"

(***************************************************************************)
(* C20: a method call obj.m(args) uses the first object on the proto chain *)
(* from the receiver whose own field table contains m: when no object on   *)
(* the chain has m the run ends with a Name error; when the first one's m  *)
(* is no Closure the run ends with a Type error, whatever objects further  *)
(* up hold; when it is a Closure taking that many arguments, that Closure  *)
(* is the one whose body is entered.                                       *)
(***************************************************************************)
C20_MethodResolutionOrder ==
    [][MethodCalled
       => LET h == FirstHolder(cells[Get(env, hist'.lastCall.name)].v,
                               hist'.lastCall.mname, Len(objs))
          IN  /\ h = 0 => status' = "NAME"
              /\ (h > 0 /\ cells[HolderEntry(hist'.lastCall)].t # "CLOSURE")
                 => status' = "TYPE"
              /\ (/\ h > 0
                  /\ cells[HolderEntry(hist'.lastCall)].t = "CLOSURE"
                  /\ Arity(cells[HolderEntry(hist'.lastCall)].v) = hist'.lastCall.nargs)
                 => /\ status' = "run"
                    /\ Len(stack') = Len(stack) + 1
                    /\ stack'[Len(stack')].kind = "call"
                    /\ stack'[Len(stack')].clo = cells[HolderEntry(hist'.lastCall)].v]_vars

\* d.m() has ended with a Type error: d's own m is an Int and d's prototype
\* holds a Closure m
C20_Witness ==
    /\ status = "TYPE"
    /\ hist.lastCall.at = steps
    /\ hist.lastCall.kind = "method"
    /\ hist.lastCall.name = "d"
    /\ Get(env, "d") # 0
    /\ cells[Get(env, "d")].t = "OBJECT"
    /\ "m" \in DOMAIN objs[cells[Get(env, "d")].v].values
    /\ cells[objs[cells[Get(env, "d")].v].values["m"]].t = "INT"
    /\ objs[cells[Get(env, "d")].v].proto # 0
    /\ "m" \in DOMAIN objs[cells[objs[cells[Get(env, "d")].v].proto].v].values
    /\ cells[objs[cells[objs[cells[Get(env, "d")].v].proto].v].values["m"]].t = "CLOSURE"

\* d.m() has entered d's own Closure m although d's prototype holds another
C20_MostDerived ==
    /\ status = "run"
    /\ hist.lastCall.at = steps
    /\ hist.lastCall.kind = "method"
    /\ hist.lastCall.name = "d"
    /\ stack # <<>>
    /\ Get(env, "d") # 0
    /\ "m" \in DOMAIN objs[cells[Get(env, "d")].v].values
    /\ stack[Len(stack)].clo = cells[objs[cells[Get(env, "d")].v].values["m"]].v
    /\ objs[cells[Get(env, "d")].v].proto # 0
    /\ "m" \in DOMAIN objs[cells[objs[cells[Get(env, "d")].v].proto].v].values
    /\ cells[objs[cells[objs[cells[Get(env, "d")].v].proto].v].values["m"]].v
       # stack[Len(stack)].clo

\* the frame of the function or method body that is running
EnclosingCall == MaxOf(CallFrames(stack))

\* the step is a return statement that ran inside a while block of a body
ReturnedInWhile ==
    /\ status' = "run"
    /\ steps' = steps + 1
    /\ hist'.lastExit.at = steps'
    /\ hist'.lastExit.kind = "return"
    /\ CallFrames(stack) # {}
    /\ \E i \in (EnclosingCall + 1)..Len(stack) : stack[i].kind = "while"

\* the step is the end of a body's statement list
BodyEnded ==
    /\ status' = "run"
    /\ steps' = steps + 1
    /\ hist'.lastExit.at = steps'
    /\ hist'.lastExit.kind = "end"
    /\ stack # <<>>
    /\ stack[Len(stack)].kind = "call"

C21_Nested ==
    /\ status = "run"
    /\ hist.lastExit.at = steps
    /\ hist.lastExit.kind = "return"
    /\ hist.lastExit.popped >= 3
    /\ hist.lastExit.loops >= 1
    /\ hist.lastYield.at = steps
    /\ hist.lastYield.val = NilCell
    /\ stack = <<>>

(***************************************************************************)
(* C22: calling a closure does not change its captured snapshot: whenever  *)
(* no call of a Closure is running, each captured name that held an Int,   *)
(* Bool, String or Nil when the lambda was evaluated still holds the value *)
(* of that moment, so that the next call starts from it.                   *)
(***************************************************************************)
C22_SnapshotSurvivesCalls ==
    \A c \in 1..Len(clos) :
        c \notin Active(stack)
        => \A n \in DOMAIN clos[c].captured :
              IsPrim(cmeta[c].snap[n].t)
              => cells[clos[c].captured[n]] = cmeta[c].snap[n]

\* the by-value formals of the running calls that were bound from a variable
\* holding an Object and are the nearest binding of their name
ObjectValArgs ==
    {ja \in VarArgs(stack) :
        /\ ~ArgOf(ja).ref
        /\ ArgOf(ja).asnap.t = "OBJECT"
        /\ cells[ArgOf(ja).acell].t = "OBJECT"
        /\ cells[FormalCell(ja)].t = "OBJECT"
        /\ Get(env, ArgOf(ja).name) = FormalCell(ja)}

\* the Object of the formal and the Object of the caller's variable
FormalObj(ja) == cells[FormalCell(ja)].v
ActualObj(ja) == cells[ArgOf(ja).acell].v

(***************************************************************************)
(* C23: an Object passed to a by-value formal is bound as an independent   *)
(* copy: the formal holds another heap object than the caller's variable,  *)
(* a field assignment through the formal in the callee leaves the caller's *)
(* object and its field values as they are, and  formal == caller's object *)
(* evaluated in the callee is false.                                       *)
(***************************************************************************)
C23_ByValueObjectCopy ==
    [][\A ja \in ObjectValArgs :
          /\ FormalObj(ja) # ActualObj(ja)
          /\ (/\ status' = "run"
              /\ hist'.lastAssign.at = steps'
              /\ steps' = steps + 1
              /\ hist'.lastAssign.name = ArgOf(ja).name
              /\ hist'.lastAssign.field # "")
             => /\ hist'.lastAssign.field \in DOMAIN objs'[FormalObj(ja)].values
                /\ objs'[ActualObj(ja)] = objs[ActualObj(ja)]
                /\ \A f \in DOMAIN objs[ActualObj(ja)].values :
                      cells'[objs[ActualObj(ja)].values[f]]
                      = cells[objs[ActualObj(ja)].values[f]]
          /\ (/\ hist'.lastEval.at = steps'
              /\ steps' = steps + 1
              /\ hist'.lastEval.op = "=="
              /\ hist'.lastEval.lt = "OBJECT"
              /\ hist'.lastEval.rt = "OBJECT"
              /\ {hist'.lastEval.lv, hist'.lastEval.rv} = {FormalObj(ja), ActualObj(ja)})
             => hist'.lastEval.res = [t |-> "BOOL", v |-> 0]]_vars

\* in the body of f(o), p.x = 2 has run: the formal's object has x = 2 and
\* the caller's object still has x = 1
C23_Witness ==
    /\ status = "run"
    /\ hist.lastAssign.at = steps
    /\ hist.lastAssign.name = "p"
    /\ hist.lastAssign.field = "x"
    /\ \E ja \in ObjectValArgs :
          /\ ArgOf(ja).name = "p"
          /\ "x" \in DOMAIN objs[FormalObj(ja)].values
          /\ cells[objs[FormalObj(ja)].values["x"]] = [t |-> "INT", v |-> 2]
          /\ "x" \in DOMAIN objs[ActualObj(ja)].values
          /\ cells[objs[ActualObj(ja)].values["x"]] = [t |-> "INT", v |-> 1]

\* in the body of f(o), r = p == o has given false
C23_Compared ==
    /\ status = "run"
    /\ hist.lastEval.at = steps
    /\ hist.lastEval.op = "=="
    /\ hist.lastEval.res = [t |-> "BOOL", v |-> 0]
    /\ \E ja \in ObjectValArgs :
          {hist.lastEval.lv, hist.lastEval.rv} = {FormalObj(ja), ActualObj(ja)}

(***************************************************************************)
(* C24: at every point of a run, after any assignments and calls, also     *)
(* calls that pass the literal nil to a by-reference formal the callee     *)
(* assigns, the literal nil and a return without an expression yield the   *)
(* value Interpreter.NIL_VALUE was made as.                                *)
(***************************************************************************)
C24_LiteralStability ==
    cells[NilCell] = NilValue

\* the step is a read of  n.f  for a name n bound to an Object, where no
\* object on the proto chain of n has the field f
AbsentFieldRead ==
    /\ steps' = steps + 1
    /\ hist'.lastRead.at = steps'
    /\ hist'.lastRead.field # "proto"
    /\ Get(env, hist'.lastRead.name) # 0
    /\ cells[Get(env, hist'.lastRead.name)].t = "OBJECT"
    /\ FirstHolder(cells[Get(env, hist'.lastRead.name)].v, hist'.lastRead.field,
                   Len(objs)) <= 0

(***************************************************************************)
(* C25: for every object graph that field and proto assignments can build, *)
(* also one with o.proto = o or with proto links from d to o and from o to *)
(* d, reading a field that no object on the receiver's proto chain has     *)
(* ends the run with a Name error.                                         *)
(***************************************************************************)
C25_LookupTerminates ==
    [][AbsentFieldRead => status' = "NAME"]_vars

====
